---- MODULE Spec2Model ----
(***************************************************************************)
(* The task routes of the service (GET/POST /tasks, GET/PUT/DELETE         *)
(* /tasks/:id) with their Redis snapshot key 'tasks:all' and the           *)
(* relational Task table.  Every await of a handler is a step of its own:  *)
(* the backing store executes the call there, and other requests may run   *)
(* between two awaits of one handler.  A handler's response is sent in the *)
(* step of its last await, except after setEx and del, which change the    *)
(* Cache: there the store has executed the call before the handler resumes *)
(* and answers, and that is a step of its own.  Any call to the SoT or the *)
(* Cache may be rejected.  Time is kept as the seconds an entry has left.  *)
(***************************************************************************)
EXTENDS Integers, Sequences, FiniteSets, TLC

\* ------------------------------------------------------------- bounds
NReq == 2          \* request slots that may be in flight at once
MaxId == 1         \* rows the SoT may ever assign an identifier to
Ticks == 2         \* clock steps per expiry window

\* ---------------------------------------------------------- constants
TTL == 3600        \* setEx(cacheKey, 3600, ...)

Req == 1..NReq
Ids == 1..(MaxId + 1)     \* identifiers a caller may name; MaxId + 1 never exists
Quantum == TTL \div Ticks

VARIABLES
    db,        \* the Task table, in the store's natural (heap) order
    nextId,    \* the next identifier the SoT assigns
    cache,     \* the entry under 'tasks:all': [present, val, ttl], ttl the seconds left
    req,       \* one record per request slot: the handler's position and locals
    last,      \* the handler that finished last: what it was asked, how it ended
    hist,      \* history: every value the Task table has had
    filled     \* history: the last write of the snapshot key not yet evicted

vars == <<db, nextId, cache, req, last, hist, filled>>

\* The null a lookup by identifier resolves to.
NoTask == [id |-> 0, description |-> "", completed |-> FALSE]

\* ------------------------------------------------------ JSON and strings
\* A string is a sequence of tokens; JSON.stringify of an array brackets the
\* serialized rows, JSON.parse strips the brackets again.
Tok(s) == [t |-> s]
ObjTok(row) == [t |-> "obj", id |-> row.id, description |-> row.description,
                completed |-> row.completed]
RowOf(tok) == [id |-> tok.id, description |-> tok.description,
               completed |-> tok.completed]

StringifyIdsOnly(tasks) ==
    <<Tok("[")>> \o [i \in 1..Len(tasks) |-> ObjTok([NoTask EXCEPT !.id = tasks[i].id])]
                \o <<Tok("]")>>
Stringify(tasks) ==
    <<Tok("[")>> \o [i \in 1..Len(tasks) |-> ObjTok(tasks[i])] \o <<Tok("]")>>

Parse(str) == [i \in 1..(Len(str) - 2) |-> RowOf(str[i + 1])]

StringifyTask(task) == <<ObjTok(task)>>
ErrorBody(msg) == <<[t |-> "error", error |-> msg]>>
NoBody == <<>>

\* What redisClient.get resolves to: null, or the stored string.
NullData == [isNull |-> TRUE, str |-> <<>>]
StrData(s) == [isNull |-> FALSE, str |-> s]

\* `if (cachedData)`: null and the empty string are falsy.
TruthyDropsEmptyList(cachedData) ==
    ~cachedData.isNull /\ Len(cachedData.str) > 2
Truthy(cachedData) == ~cachedData.isNull /\ Len(cachedData.str) > 0

\* ------------------------------------------------------------ the Cache
Absent == [present |-> FALSE, val |-> <<>>, ttl |-> 0]

\* The entry after dt more seconds: gone once its time to live is used up.
LaterKeeps(c, dt) == c
Later(c, dt) ==
    IF ~c.present THEN c
    ELSE IF c.ttl <= dt THEN Absent
    ELSE [c EXCEPT !.ttl = @ - dt]

CacheGet(c) == IF c.present THEN StrData(c.val) ELSE NullData

\* setEx(key, seconds, value): the value, with seconds to live.
CacheSetNx(c, seconds, str) ==
    IF c.present THEN c ELSE [present |-> TRUE, val |-> str, ttl |-> seconds]
CacheSetEx(c, seconds, str) == [present |-> TRUE, val |-> str, ttl |-> seconds]

\* del resolves to the number of keys removed; an absent key is no error.
CacheDelEmpties(c) ==
    [count |-> IF c.present THEN 1 ELSE 0,
     cache |-> IF c.present THEN [c EXCEPT !.val = <<Tok("["), Tok("]")>>] ELSE c]
CacheDelKeeps(c) == [count |-> 0, cache |-> c]
CacheDel(c) == [count |-> IF c.present THEN 1 ELSE 0, cache |-> Absent]

\* -------------------------------------------------------------- the SoT
RowIds(rows) == {rows[i].id : i \in 1..Len(rows)}

RECURSIVE RemoveId(_, _)
RemoveId(rows, id) ==
    IF rows = <<>> THEN <<>>
    ELSE IF Head(rows).id = id THEN RemoveId(Tail(rows), id)
    ELSE <<Head(rows)>> \o RemoveId(Tail(rows), id)

\* Task.findAll(): one query, the whole table as it is at that instant.
FindAllSkipsLast(rows) == SubSeq(rows, 1, Len(rows) - 1)
FindAll(rows) == rows

\* Task.findByPk(id): the row, or null.
FindByPk(rows, id) ==
    IF id \in RowIds(rows)
    THEN rows[CHOOSE i \in 1..Len(rows) : rows[i].id = id]
    ELSE NoTask

\* Task.create({description, completed: false}): the row as inserted.
NewRow(id, description) == [id |-> id, description |-> description, completed |-> FALSE]

\* task.update({description, completed}): undefined fields are left alone, and
\* only the columns whose value differs from the loaded instance are written,
\* to the row with the instance's identifier (none, when it is gone).
Applied(task, body) ==
    [task EXCEPT
        !.description = IF body.hasDescription THEN body.description ELSE @,
        !.completed = IF body.hasCompleted THEN body.completed ELSE @]

UpdateRow(row, task, body) ==
    [row EXCEPT
        !.description = IF body.hasDescription /\ body.description # task.description
                        THEN body.description ELSE @,
        !.completed = IF body.hasCompleted /\ body.completed # task.completed
                      THEN body.completed ELSE @]

UpdateByPk(rows, task, body) ==
    [i \in 1..Len(rows) |->
        IF rows[i].id = task.id THEN UpdateRow(rows[i], task, body) ELSE rows[i]]

\* Task.destroy({where: {id}}): the number of rows removed.
DestroyCountsOne(rows, id) == [deleted |-> 1, rows |-> RemoveId(rows, id)]
Destroy(rows, id) ==
    [deleted |-> IF id \in RowIds(rows) THEN 1 ELSE 0, rows |-> RemoveId(rows, id)]

\* ------------------------------------------------------- request bodies
\* req.body of POST and PUT: each field present or not (undefined).
NoInput == [hasDescription |-> FALSE, description |-> "", hasCompleted |-> FALSE, completed |-> FALSE]

CreateBodies ==
    { NoInput,
      [NoInput EXCEPT !.hasDescription = TRUE],
      [NoInput EXCEPT !.hasDescription = TRUE, !.description = "a"] }

\* Update(id, completed = true), the description left undefined.
UpdateBodies ==
    { [NoInput EXCEPT !.hasCompleted = TRUE, !.completed = TRUE] }

\* `if (!description)`: undefined and "" are falsy.
MissingOnly(body) == ~body.hasDescription
NotDescription(body) == ~body.hasDescription \/ body.description = ""

\* ------------------------------------------------------------ requests
Mutations == {"create", "update", "delete"}

Idle ==
    [op |-> "idle", pc |-> "idle", id |-> 0, body |-> NoInput,
     task |-> NoTask, tasks |-> <<>>, solo |-> FALSE, follows |-> FALSE,
     refilled |-> FALSE, evicted |-> FALSE, stale |-> FALSE, gone |-> FALSE]

None ==
    [op |-> "none", id |-> 0, body |-> NoInput, status |-> 0, sent |-> NoBody,
     err |-> "none", queried |-> FALSE, solo |-> FALSE, refilled |-> FALSE]

Free(r) == req[r].pc = "idle"

Success(l) == l.op \in Mutations /\ l.status \in {200, 201, 204}

\* History kept with a request: solo, no other request has been in flight since
\* it arrived; follows, it is a ListAll that arrived after a successful mutation
\* had answered, and no handler has finished since.
Begin(r, op, pc, id, body) ==
    [Idle EXCEPT !.op = op, !.pc = pc, !.id = id, !.body = body,
                 !.solo = \A q \in Req \ {r} : req[q].pc = "idle",
                 !.follows = op = "list" /\ Success(last)]

\* More history kept with a request.  evicted: the Cache has carried out an
\* eviction since this ListAll's lookup missed, and its fill has not written yet.
\* stale: the SoT has changed since this ListAll's query.  gone: this Update's
\* record was not in the SoT when its write was applied.
Evicted(rqs) ==
    [q \in Req |->
        IF rqs[q].op = "list" /\ rqs[q].pc \in {"query", "fill"}
        THEN [rqs[q] EXCEPT !.evicted = TRUE] ELSE rqs[q]]

Outdated(rqs, changed) ==
    [q \in Req |->
        IF changed /\ rqs[q].op = "list" /\ rqs[q].pc \in {"fill", "respond"}
        THEN [rqs[q] EXCEPT !.stale = TRUE] ELSE rqs[q]]

\* Slot r takes a request: the requests in flight are solo no longer.
Arrive(r, rq) == [q \in Req |-> IF q = r THEN rq ELSE [req[q] EXCEPT !.solo = FALSE]]

\* A request is refused as it arrives.
Refuse(r, l) ==
    /\ req' = [q \in Req |-> IF q = r THEN Idle
                             ELSE [req[q] EXCEPT !.solo = FALSE, !.follows = FALSE]]
    /\ last' = l

\* The handler of rq has finished: with an answer (res.status(code).json(x) or
\* .send()), or, for code 0, without one.
Ended(rq, code, sent, err) ==
    [op |-> rq.op, id |-> rq.id, body |-> IF code = 400 THEN rq.body ELSE NoInput,
     status |-> code, sent |-> sent, err |-> err,
     queried |-> rq.op = "list" /\ rq.pc # "lookup", solo |-> rq.solo,
     refilled |-> rq.refilled]

NotFilled == [present |-> FALSE, val |-> <<>>, age |-> 0]

Init ==
    /\ db = <<>>
    /\ nextId = 1
    /\ cache = Absent
    /\ req = [r \in Req |-> Idle]
    /\ last = None
    /\ hist = {<<>>}
    /\ filled = NotFilled

\* Slot r finishes with outcome l.
Finish(r, l) ==
    /\ req' = [q \in Req |-> IF q = r THEN Idle ELSE [req[q] EXCEPT !.follows = FALSE]]
    /\ last' = l

\* --------------------------------------------------------- GET /tasks
StartList(r) ==
    /\ Free(r)
    /\ req' = Arrive(r, Begin(r, "list", "lookup", 0, NoInput))
    /\ UNCHANGED <<db, nextId, cache, last, hist, filled>>

\* catch (error) { res.status(500).json({error: "Erro ao buscar tarefas"}) }
ListCatchServes(rq, which) == Ended(rq, 200, Stringify(rq.tasks), which)
ListCatch(rq, which) == Ended(rq, 500, ErrorBody("Erro ao buscar tarefas"), which)

\* The entry as a hit leaves it.
HitSlides(c) == [c EXCEPT !.ttl = TTL]
HitLeaves(c) == c

\* const cachedData = await redisClient.get(cacheKey);
\* if (cachedData) return res.json(JSON.parse(cachedData));
ListLookup(r) ==
    /\ req[r].op = "list" /\ req[r].pc = "lookup"
    /\ \* the Cache call is rejected, or is carried out
       \/   /\ Finish(r, ListCatch(req[r], "cache"))
            /\ UNCHANGED cache
       \/   LET cachedData == CacheGet(cache) IN
            IF Truthy(cachedData)
            THEN /\ Finish(r, Ended(req[r], 200, Stringify(Parse(cachedData.str)), "none"))
                 /\ cache' = HitLeaves(cache)
            ELSE /\ req' = [req EXCEPT ![r].pc = "query"]
                 /\ UNCHANGED <<cache, last>>
    /\ UNCHANGED <<db, nextId, hist, filled>>

\* const tasks = await Task.findAll();
ListQuery(r) ==
    /\ req[r].op = "list" /\ req[r].pc = "query"
    /\ \* the SoT call is rejected, or is carried out
       \/   Finish(r, ListCatch(req[r], "sot"))
       \/   /\ req' = [req EXCEPT ![r].pc = "fill", ![r].tasks = FindAll(db)]
            /\ UNCHANGED last
    /\ UNCHANGED <<db, nextId, cache, hist, filled>>

\* A write of the snapshot key marks every mutation that has evicted it and
\* not answered yet.
Refilled(rqs) ==
    [q \in Req |->
        IF rqs[q].op \in Mutations /\ rqs[q].pc = "respond"
        THEN [rqs[q] EXCEPT !.refilled = TRUE] ELSE rqs[q]]

\* await redisClient.setEx(cacheKey, 3600, JSON.stringify(tasks));
ListFill(r) ==
    /\ req[r].op = "list" /\ req[r].pc = "fill"
    /\ \* the Cache call is rejected, or is carried out
       \/   /\ Finish(r, ListCatch(req[r], "cache"))
            /\ UNCHANGED <<cache, filled>>
       \/   /\ cache' = CacheSetEx(cache, TTL, Stringify(req[r].tasks))
            /\ filled' = [present |-> TRUE, val |-> Stringify(req[r].tasks), age |-> 0]
            /\ req' = [Refilled(req) EXCEPT ![r].pc = "respond"]
            /\ UNCHANGED last
    /\ UNCHANGED <<db, nextId, hist>>

\* res.json(tasks);
ListRespond(r) ==
    /\ req[r].op = "list" /\ req[r].pc = "respond"
    /\ Finish(r, Ended(req[r], 200, Stringify(req[r].tasks), "none"))
    /\ UNCHANGED <<db, nextId, cache, hist, filled>>

\* ------------------------------------------- the handlers without a catch
\* A rejected await in a handler that has no try/catch leaves the handler: the
\* framework's error handler answers 500 where the framework forwards rejected
\* handler promises, and nothing ever answers where it does not.
Unhandled == {"errorHandler", "noResponse"}

RejectSwallowed(rq, which, outcome) ==
    Ended(rq, IF rq.op = "create" THEN 201 ELSE IF rq.op = "delete" THEN 204 ELSE 200,
          NoBody, which)
Reject(rq, which, outcome) ==
    IF outcome = "errorHandler"
    THEN Ended(rq, 500, ErrorBody("Internal Server Error"), which)
    ELSE Ended(rq, 0, NoBody, which)

\* await redisClient.del('tasks:all'): the count del resolves to is not looked at.
EvictNeedsKey(count) == count > 0
EvictOk(count) == TRUE

Evict(r) ==
    /\ req[r].op \in Mutations /\ req[r].pc = "evict"
    /\ \* the Cache call is rejected, or is carried out
       \/   /\ \E outcome \in Unhandled : Finish(r, Reject(req[r], "cache", outcome))
            /\ UNCHANGED <<cache, filled>>
       \/   LET res == CacheDel(cache) IN
            /\ cache' = res.cache
            /\ filled' = IF res.cache.present THEN filled ELSE NotFilled
            /\ IF EvictOk(res.count)
               THEN /\ req' = [Evicted(req) EXCEPT ![r].pc = "respond", ![r].refilled = FALSE]
                    /\ UNCHANGED last
               ELSE \E outcome \in Unhandled : Finish(r, Reject(req[r], "evict", outcome))
    /\ UNCHANGED <<db, nextId, hist>>

\* -------------------------------------------------------- POST /tasks
\* if (!description) return res.status(400).json({error: "Descrição obrigatória"});
StartCreate(r, body) ==
    /\ Free(r)
    /\ IF NotDescription(body)
       THEN Refuse(r, Ended(Begin(r, "create", "validate", 0, body), 400,
                            ErrorBody("Descrição obrigatória"), "none"))
       ELSE /\ req' = Arrive(r, Begin(r, "create", "insert", 0, body))
            /\ UNCHANGED last
    /\ UNCHANGED <<db, nextId, cache, hist, filled>>

\* const task = await Task.create({description, completed: false});
CreateInsert(r) ==
    /\ req[r].op = "create" /\ req[r].pc = "insert"
    /\ \* the SoT call is rejected, or is carried out
       \/   /\ \E outcome \in Unhandled : Finish(r, Reject(req[r], "sot", outcome))
            /\ UNCHANGED <<db, nextId, hist>>
       \/   LET task == NewRow(nextId, req[r].body.description) IN
            /\ nextId <= MaxId
            /\ db' = Append(db, task)
            /\ nextId' = nextId + 1
            /\ hist' = hist \cup {db'}
            /\ req' = [Outdated(req, TRUE) EXCEPT ![r].pc = "evict", ![r].task = task]
            /\ UNCHANGED last
    /\ UNCHANGED <<cache, filled>>

CreateEvict(r) == req[r].op = "create" /\ Evict(r)

\* res.status(201).json(task);
CreateRespond(r) ==
    /\ req[r].op = "create" /\ req[r].pc = "respond"
    /\ Finish(r, Ended(req[r], 201, StringifyTask(req[r].task), "none"))
    /\ UNCHANGED <<db, nextId, cache, hist, filled>>

\* ----------------------------------------------------- GET /tasks/:id
StartGet(r, id) ==
    /\ Free(r)
    /\ req' = Arrive(r, Begin(r, "get", "load", id, NoInput))
    /\ UNCHANGED <<db, nextId, cache, last, hist, filled>>

\* return res.status(404).json({error: "Tarefa não encontrada"});
NotFound(rq) == Ended(rq, 404, ErrorBody("Tarefa não encontrada"), "none")

\* const task = await Task.findByPk(req.params.id); if (!task) return 404; res.json(task);
GetLoad(r) ==
    /\ req[r].op = "get" /\ req[r].pc = "load"
    /\ \* the SoT call is rejected, or is carried out
       \/   \E outcome \in Unhandled : Finish(r, Reject(req[r], "sot", outcome))
       \/   LET task == FindByPk(db, req[r].id) IN
            IF task = NoTask THEN Finish(r, NotFound(req[r]))
            ELSE Finish(r, Ended(req[r], 200, StringifyTask(task), "none"))
    /\ UNCHANGED <<db, nextId, cache, hist, filled>>

\* ----------------------------------------------------- PUT /tasks/:id
StartUpdate(r, id, body) ==
    /\ Free(r)
    /\ req' = Arrive(r, Begin(r, "update", "load", id, body))
    /\ UNCHANGED <<db, nextId, cache, last, hist, filled>>

\* const task = await Task.findByPk(req.params.id); if (!task) return 404;
UpdateLoad(r) ==
    /\ req[r].op = "update" /\ req[r].pc = "load"
    /\ \* the SoT call is rejected, or is carried out
       \/   \E outcome \in Unhandled : Finish(r, Reject(req[r], "sot", outcome))
       \/   LET task == FindByPk(db, req[r].id) IN
            IF task = NoTask THEN Finish(r, NotFound(req[r]))
            ELSE /\ req' = [req EXCEPT ![r].pc = "save", ![r].task = task]
                 /\ UNCHANGED last
    /\ UNCHANGED <<db, nextId, cache, hist, filled>>

\* await task.update({description, completed});
UpdateSave(r) ==
    /\ req[r].op = "update" /\ req[r].pc = "save"
    /\ \* the SoT call is rejected, or is carried out
       \/   /\ \E outcome \in Unhandled : Finish(r, Reject(req[r], "sot", outcome))
            /\ UNCHANGED <<db, hist>>
       \/   /\ db' = UpdateByPk(db, req[r].task, req[r].body)
            /\ hist' = hist \cup {db'}
            /\ req' = [Outdated(req, db' # db) EXCEPT
                            ![r].pc = "evict",
                            ![r].task = Applied(req[r].task, req[r].body),
                            ![r].gone = req[r].id \notin RowIds(db)]
            /\ UNCHANGED last
    /\ UNCHANGED <<nextId, cache, filled>>

UpdateEvict(r) == req[r].op = "update" /\ Evict(r)

\* res.json(task);
UpdateRespond(r) ==
    /\ req[r].op = "update" /\ req[r].pc = "respond"
    /\ Finish(r, Ended(req[r], 200, StringifyTask(req[r].task), "none"))
    /\ UNCHANGED <<db, nextId, cache, hist, filled>>

\* -------------------------------------------------- DELETE /tasks/:id
StartDelete(r, id) ==
    /\ Free(r)
    /\ req' = Arrive(r, Begin(r, "delete", "destroy", id, NoInput))
    /\ UNCHANGED <<db, nextId, cache, last, hist, filled>>

\* if (!deleted) return res.status(404).json(...): zero rows removed is NotFound.
DeletedAlways(deleted) == TRUE
Deleted(deleted) == deleted # 0

\* const deleted = await Task.destroy({where: {id: req.params.id}});
DeleteDestroy(r) ==
    /\ req[r].op = "delete" /\ req[r].pc = "destroy"
    /\ \* the SoT call is rejected, or is carried out
       \/   /\ \E outcome \in Unhandled : Finish(r, Reject(req[r], "sot", outcome))
            /\ UNCHANGED <<db, hist>>
       \/   LET res == Destroy(db, req[r].id) IN
            /\ db' = res.rows
            /\ hist' = hist \cup {db'}
            /\ IF Deleted(res.deleted)
               THEN /\ req' = [Outdated(req, db' # db) EXCEPT ![r].pc = "evict"]
                    /\ UNCHANGED last
               ELSE Finish(r, NotFound(req[r]))
    /\ UNCHANGED <<nextId, cache, filled>>

DeleteEvict(r) == req[r].op = "delete" /\ Evict(r)

\* res.status(204).send();
DeleteRespond(r) ==
    /\ req[r].op = "delete" /\ req[r].pc = "respond"
    /\ Finish(r, Ended(req[r], 204, NoBody, "none"))
    /\ UNCHANGED <<db, nextId, cache, hist, filled>>

\* ---------------------------------------------------- the environment
\* Quantum seconds pass: the Cache drops the entry once its time to live is
\* used up.  (With no entry, the passing of time changes nothing.)
Tick ==
    /\ cache.present \/ filled.present
    /\ cache' = Later(cache, Quantum)
    /\ filled' = IF filled.present /\ filled.age + Quantum < 3600
                 THEN [filled EXCEPT !.age = @ + Quantum] ELSE NotFilled
    /\ UNCHANGED <<db, nextId, req, last, hist>>

Next ==
    \/ \E r \in Req :
        \/ StartList(r) \/ ListLookup(r) \/ ListQuery(r) \/ ListFill(r) \/ ListRespond(r)
        \/ \E body \in CreateBodies : StartCreate(r, body)
        \/ CreateInsert(r) \/ CreateEvict(r) \/ CreateRespond(r)
        \/ \E id \in Ids : StartGet(r, id)
        \/ GetLoad(r)
        \/ \E id \in Ids, body \in UpdateBodies : StartUpdate(r, id, body)
        \/ UpdateLoad(r) \/ UpdateSave(r) \/ UpdateEvict(r) \/ UpdateRespond(r)
        \/ \E id \in Ids : StartDelete(r, id)
        \/ DeleteDestroy(r) \/ DeleteEvict(r) \/ DeleteRespond(r)
    \/ Tick

Spec == Init /\ [][Next]_vars

\* The Cache's clock does not stop: an entry written with a time to live does
\* run out of it.
FairSpec == Spec /\ WF_vars(Tick)

\* The executions in which requests do not overlap and no call of the SoT or
\* of the Cache fails: a request arrives only while no other is in flight, and
\* no handler ends on a failure.
Sequential ==
    /\ Cardinality({r \in Req : req'[r].pc # "idle"}) <= 1
    /\ last'.err = "none"

SeqNext ==
    \/ \E r \in Req :
        \/ StartList(r) /\ Sequential
        \/ ListLookup(r) /\ Sequential
        \/ ListQuery(r) /\ Sequential
        \/ ListFill(r) /\ Sequential
        \/ ListRespond(r) /\ Sequential
        \/ \E body \in CreateBodies : StartCreate(r, body) /\ Sequential
        \/ CreateInsert(r) /\ Sequential
        \/ CreateEvict(r) /\ Sequential
        \/ CreateRespond(r) /\ Sequential
        \/ \E id \in Ids : StartGet(r, id) /\ Sequential
        \/ GetLoad(r) /\ Sequential
        \/ \E id \in Ids, body \in UpdateBodies : StartUpdate(r, id, body) /\ Sequential
        \/ UpdateLoad(r) /\ Sequential
        \/ UpdateSave(r) /\ Sequential
        \/ UpdateEvict(r) /\ Sequential
        \/ UpdateRespond(r) /\ Sequential
        \/ \E id \in Ids : StartDelete(r, id) /\ Sequential
        \/ DeleteDestroy(r) /\ Sequential
        \/ DeleteEvict(r) /\ Sequential
        \/ DeleteRespond(r) /\ Sequential
    \/ Tick

SeqSpec == Init /\ [][SeqNext]_vars

\* ------------------------------------------------------------- steps
\* The handler in slot r finishes in this step.
Finishes(r) == req[r].pc # "idle" /\ req'[r].pc = "idle"

\* A mutation in slot r sends its success response in this step.
AnswersSuccess(r) ==
    /\ req[r].op \in Mutations /\ req[r].pc = "respond"
    /\ Finishes(r) /\ Success(last')

\* The rows a serialized list holds.
Listed(str) == {Parse(str)[i] : i \in 1..Len(Parse(str))}

\* A list reflects the mutation that ended as l: the created or updated record
\* is listed as answered, the deleted one is not listed.
Reflects(str, l) ==
    IF l.op = "delete" THEN l.id \notin RowIds(Parse(str))
    ELSE RowOf(l.sent[1]) \in Listed(str)

\* ------------------------------------------------------------ claims

\* C1 as stated: whenever a mutation handler sends its success response, the
\* snapshot key is absent at that moment, whatever runs concurrently.
C1_AbsentAtResponse ==
    [][\A r \in Req : AnswersSuccess(r) => ~cache'.present]_vars

\* C1 as amended: whenever a mutation handler sends its success response, the
\* snapshot key is absent at that moment unless a ListAll miss-fill has written
\* it since that handler's eviction.
C1_AbsentUnlessRefilled ==
    [][\A r \in Req : AnswersSuccess(r) /\ ~req[r].refilled => ~cache'.present]_vars

\* A mutation has evicted and is about to answer while a ListAll is in flight.
C1_Witness ==
    \E r \in Req, q \in Req :
        /\ req[r].op \in Mutations /\ req[r].pc = "respond" /\ ~req[r].refilled
        /\ req[q].op = "list" /\ req[q].pc = "query"
        /\ ~cache.present

\* C2: the snapshot, whenever present, is the serialized full collection of the
\* SoT as it was at some past instant.
C2_PointInTimeCopy ==
    cache.present => \E h \in hist : cache.val = Stringify(h) /\ Parse(cache.val) = h

\* A snapshot of a past, non-empty state of the SoT that the SoT has left.
C2_Witness ==
    /\ cache.present /\ Len(cache.val) > 2
    /\ Parse(cache.val) # db /\ Parse(cache.val) \in hist

\* C3 as stated: a ListAll that arrives after a successful mutation has
\* answered, and succeeds, has missed, re-fetched, and returns a collection
\* that reflects the mutation.
C3_MissAfterMutation ==
    [][\A r \in Req :
        req[r].op = "list" /\ req[r].follows /\ Finishes(r) /\ last'.status = 200
        => last'.queried /\ Reflects(last'.sent, last)]_vars

\* C3 as amended: the same, for a mutation and a ListAll that each ran with no
\* other request in flight.
C3_MissAfterMutationSolo ==
    [][\A r \in Req :
        /\ req[r].op = "list" /\ req[r].follows /\ Finishes(r) /\ last'.status = 200
        /\ req[r].solo /\ last.solo
        => last'.queried /\ Reflects(last'.sent, last) /\ last'.sent = Stringify(db)]_vars

\* A solo ListAll that followed a solo Update has answered the updated record.
C3_Witness ==
    /\ last.op = "list" /\ last.status = 200 /\ last.queried /\ last.solo
    /\ \E i \in 1..Len(db) : db[i].completed
    /\ last.sent = Stringify(db)
    /\ ~cache.present

\* C4: while the last fill is within its expiry window and no eviction has
\* followed it, a ListAll lookup that the Cache answers is a hit: the handler
\* finishes there, without a query of the SoT, and sends content identical to
\* the serialized value the fill wrote; SoT and snapshot are left as they are.
C4_HitWithinWindow ==
    [][\A r \in Req :
        /\ req[r].op = "list" /\ req[r].pc = "lookup" /\ req'[r].pc # "lookup"
        /\ filled.present
        => /\ Finishes(r)
           /\ \/ /\ last'.status = 200 /\ last'.sent = filled.val /\ ~last'.queried
                 /\ UNCHANGED <<db, hist, cache>>
              \/ last'.status = 500 /\ last'.err = "cache"]_vars

\* A ListAll has hit a non-empty snapshot some time after its fill.
C4_Witness ==
    /\ last.op = "list" /\ last.status = 200 /\ ~last.queried
    /\ filled.present /\ filled.age > 0 /\ Len(filled.val) > 2
    /\ last.sent = filled.val

\* C5: a handler in which a SoT call or a Cache call failed ends with the
\* error response 500.
C5_ErrorsAnswered == last.err # "none" => last.status = 500

\* C6: a Create whose description is missing or empty never gets past the
\* validation, and the step that answers 400 leaves the SoT, the snapshot key
\* and its expiry as they are.
C6_ValidationGate ==
    [][/\ \A r \in Req :
            req'[r].op = "create"
            => req'[r].body.hasDescription /\ req'[r].body.description # ""
       /\ last' # last /\ last'.op = "create" /\ last'.status = 400
            => /\ ~last'.body.hasDescription \/ last'.body.description = ""
               /\ UNCHANGED <<db, nextId, hist, cache, filled>>]_vars

\* A Create with an empty description was refused while rows and a snapshot exist.
C6_Witness ==
    /\ last.op = "create" /\ last.status = 400
    /\ last.body.hasDescription /\ last.body.description = ""
    /\ db # <<>> /\ cache.present

\* C7: when Get, Update or Delete reaches the SoT with an identifier it does
\* not hold, the handler finishes there with 404 (or with the SoT's failure),
\* and the SoT and the snapshot key are left as they are; no 404 evicts.
C7_NotFoundNoEviction ==
    [][/\ \A r \in Req :
            /\ req[r].op \in {"get", "update", "delete"}
            /\ req[r].pc \in {"load", "destroy"} /\ req'[r].pc # req[r].pc
            /\ req[r].id \notin RowIds(db)
            => /\ Finishes(r)
               /\ last'.status = 404 \/ last'.err = "sot"
               /\ UNCHANGED <<db, nextId, cache, filled>>
       /\ last' # last /\ last'.status = 404 => UNCHANGED <<cache, filled>>]_vars

\* A Delete of an unknown identifier answered 404 and the snapshot is present.
C7_Witness ==
    /\ last.op = "delete" /\ last.status = 404 /\ last.id \notin RowIds(db)
    /\ cache.present /\ db # <<>>

\* C8: a ListAll whose Cache lookup or Cache write failed ends with the error
\* response 500 and an error body, never a task list; after a failed lookup
\* the handler finishes without having queried the SoT.
C8_FailClosed ==
    [][\A r \in Req :
        req[r].op = "list" /\ Finishes(r) /\ last'.err = "cache"
        => /\ last'.status = 500
           /\ last'.sent = ErrorBody("Erro ao buscar tarefas")
           /\ req[r].pc = "lookup" => ~last'.queried
           /\ req[r].pc = "fill" => UNCHANGED cache]_vars

\* A ListAll fetched a non-empty list, failed to write it, and answered 500.
C8_Witness ==
    /\ last.op = "list" /\ last.err = "cache" /\ last.queried /\ last.status = 500
    /\ db # <<>> /\ ~cache.present

\* C9: a hit happens only within 3600 seconds of the write of the entry; every
\* fill writes the entry with 3600 seconds to live, and no other step, hits
\* included, gives an entry more time to live than it had.
C9_ExpiryBound ==
    [][/\ \A r \in Req :
            /\ req[r].op = "list" /\ req[r].pc = "lookup"
            /\ Finishes(r) /\ last'.status = 200
            => filled.present /\ filled.age < 3600
       /\ \A r \in Req :
            req[r].op = "list" /\ req[r].pc = "fill" /\ req'[r].pc = "respond"
            => cache'.present /\ cache'.ttl = 3600
       /\ (cache'.present /\ cache' # cache /\ ~\E r \in Req :
                req[r].pc = "fill" /\ req'[r].pc = "respond")
            => cache.present /\ cache'.val = cache.val /\ cache'.ttl < cache.ttl]_vars

\* A solo ListAll filled the snapshot, and a later solo ListAll has missed: the
\* entry expired in between.
C9_Witness ==
    /\ last.op = "list" /\ last.status = 200 /\ last.queried /\ last.solo
    /\ ~cache.present
    /\ \E r \in Req : req[r].op = "list" /\ req[r].pc = "query" /\ req[r].solo

\* C10: an eviction that the Cache carries out while the key is absent is no
\* error: the handler goes on to its success response and the key stays absent.
C10_IdempotentEviction ==
    [][/\ \A r \in Req :
            /\ req[r].op \in Mutations /\ req[r].pc = "evict" /\ req'[r].pc # "evict"
            /\ ~cache.present
            => /\ ~cache'.present
               /\ \/ req'[r].pc = "respond"
                  \/ Finishes(r) /\ last'.err = "cache"
       /\ \A r \in Req :
            req[r].op \in Mutations /\ req[r].pc = "respond" /\ Finishes(r)
            => Success(last') /\ last'.err = "none"]_vars

\* The first request ever, a Create on a cold cache, has evicted and is about
\* to answer.
C10_Witness ==
    /\ last = None /\ ~cache.present
    /\ \E r \in Req : req[r].op = "create" /\ req[r].pc = "respond" /\ req[r].solo

\* A step in which the Cache carries out the write of slot r's ListAll.
Fills(r) == req[r].op = "list" /\ req[r].pc = "fill" /\ req'[r].pc = "respond"

\* A step that replaces a present snapshot with a different, present value.
Overwrites == cache.present /\ cache'.present /\ cache'.val # cache.val

\* C11 as stated: whenever a cache write replaces a present snapshot with a
\* different value, the write is a ListAll's miss-fill, and an eviction of the
\* key took place between that ListAll's lookup and its write.
C11_OverwriteAfterEviction ==
    [][Overwrites => \E r \in Req : Fills(r) /\ req[r].evicted]_vars

\* C11 as amended: whenever a cache write replaces a present snapshot with a
\* different value, the write is a ListAll's miss-fill that writes the list it
\* fetched after its lookup missed; the value replaced and the value written
\* are two different past states of the SoT.
C11_OverwriteByRacingFill ==
    [][Overwrites
       => \E r \in Req :
            /\ Fills(r) /\ cache'.val = Stringify(req[r].tasks)
            /\ Parse(cache.val) \in hist /\ req[r].tasks \in hist
            /\ Parse(cache.val) # req[r].tasks]_vars

\* A fill has replaced a different snapshot and no eviction took place between
\* its lookup and its write.
C11_Witness ==
    \E r \in Req :
        /\ req[r].op = "list" /\ req[r].pc = "respond" /\ ~req[r].evicted
        /\ cache.present /\ cache.val = Stringify(req[r].tasks)
        /\ last.op = "list" /\ last.status = 200 /\ last.queried
        /\ last.sent # cache.val

\* Slot r holds a ListAll that has missed and has fetched its list.
Fetched(r) == req[r].op = "list" /\ req[r].pc \in {"fill", "respond"}

\* A step in which the SoT carries out the query of slot r's ListAll.
Queries(r) == req[r].op = "list" /\ req[r].pc = "query" /\ req'[r].pc = "fill"

\* C12 as stated: two overlapping ListAll that both missed and both wrote the
\* key wrote equal values.
C12_EqualFills ==
    \A r \in Req, q \in Req :
        /\ req[r].op = "list" /\ req[r].pc = "respond"
        /\ req[q].op = "list" /\ req[q].pc = "respond"
        => Stringify(req[r].tasks) = Stringify(req[q].tasks)

\* C12 as amended: of two overlapping ListAll that both missed, each fetches
\* the collection the SoT holds at its own query and writes exactly that; the
\* later query fetches a list equal to the earlier one's when the SoT has not
\* changed between the two queries.
C12_EqualFillsUnlessWritten ==
    [][\A q \in Req :
        /\ Queries(q)
            => /\ req'[q].tasks = db
               /\ \A r \in Req \ {q} :
                    Fetched(r) /\ ~req[r].stale => req'[q].tasks = req[r].tasks
        /\ Fills(q)
            => cache'.val = Stringify(req[q].tasks) /\ Parse(cache'.val) = req[q].tasks]_vars

\* Two overlapping ListAll have both missed and have both written the same,
\* non-empty list.
C12_Witness ==
    \E r \in Req, q \in Req :
        /\ r # q
        /\ req[r].op = "list" /\ req[r].pc = "respond"
        /\ req[q].op = "list" /\ req[q].pc = "respond"
        /\ req[r].tasks = req[q].tasks /\ req[r].tasks # <<>>
        /\ cache.present /\ cache.val = Stringify(req[q].tasks)

\* No request is in flight.
Quiet == \A r \in Req : req[r].pc = "idle"

\* C13: nothing keeps a fill that raced a mutation from leaving a stale
\* snapshot.  The write of a ListAll whose lookup preceded an eviction and whose
\* query preceded a change of the SoT stores the list fetched before the
\* change, with a full time to live; and the steps that answer, the ListAll's
\* and the mutation's, leave the key and the SoT as they are.
C13_RacingFillStays ==
    [][\A r \in Req :
        /\ Fills(r) /\ req[r].evicted /\ req[r].stale
            => cache' = [present |-> TRUE, val |-> Stringify(req[r].tasks), ttl |-> TTL]
        /\ req[r].pc = "respond" /\ Finishes(r)
            => /\ UNCHANGED <<db, cache>>
               /\ last'.status \in {200, 201, 204}]_vars

\* Both requests have completed, the mutation with success and last: a fill
\* wrote the key after the mutation's eviction, and the snapshot that is
\* present predates the mutation and differs from the SoT.
C13_Witness ==
    /\ Quiet
    /\ Success(last) /\ last.refilled
    /\ cache.present /\ ~Reflects(cache.val, last) /\ Parse(cache.val) # db

\* The snapshot is present and is not the collection the SoT holds.
Stale == cache.present /\ Parse(cache.val) # db

\* A step in which slot r's ListAll is answered from the snapshot.
Hits(r) ==
    /\ req[r].op = "list" /\ req[r].pc = "lookup"
    /\ Finishes(r) /\ last'.status = 200

\* C14: staleness is bounded.  With a Cache whose clock does not stop, every
\* stale snapshot is eventually removed.  An eviction that the Cache carries
\* out, and the end of the time to live, leave the key absent; a hit sends the
\* value the key holds at that moment, so nothing is served from a removed
\* snapshot; and only a ListAll's fill makes an absent key present again.
C14_BoundedStaleness ==
    /\ Stale ~> ~cache.present
    /\ [][/\ \A r \in Req :
                /\ Hits(r) => cache.present /\ last'.sent = cache.val
                /\ req[r].op \in Mutations /\ req[r].pc = "evict" /\ req'[r].pc = "respond"
                    => ~cache'.present
          /\ cache.present /\ cache.ttl <= Quantum /\ UNCHANGED <<req, last>>
                => ~cache'.present
          /\ ~cache.present /\ cache'.present => \E r \in Req : Fills(r)]_vars

\* With no request in flight, a stale snapshot is in the last part of its time
\* to live.
C14_Witness == Quiet /\ Stale /\ cache.ttl = Quantum

\* The handler in slot r takes a step.
Steps(r) == req'[r].pc # req[r].pc

\* C15: every mutation writes the SoT first and only then evicts, and never
\* writes the snapshot.  A mutation handler reaches its eviction by the step in
\* which the SoT carries out its write, and that step leaves the key alone; a
\* mutation handler changes the SoT in no later step; the only change a
\* mutation handler makes to the key is its eviction, which leaves the key
\* absent; and every step that puts a value under the key is a ListAll's fill.
C15_WriteThenEvict ==
    [][/\ \A r \in Req :
            req[r].op \in Mutations /\ Steps(r)
            => /\ req'[r].pc = "evict"
                    => /\ UNCHANGED <<cache, filled>>
                       /\ req[r].op = "create"
                            => req[r].pc = "insert" /\ db' = Append(db, req'[r].task)
                       /\ req[r].op = "update"
                            => /\ req[r].pc = "save"
                               /\ db' = UpdateByPk(db, req[r].task, req[r].body)
                       /\ req[r].op = "delete"
                            => /\ req[r].pc = "destroy"
                               /\ req[r].id \in RowIds(db) /\ req[r].id \notin RowIds(db')
               /\ req[r].pc \in {"evict", "respond"} => UNCHANGED <<db, nextId>>
               /\ cache' # cache => req[r].pc = "evict" /\ ~cache'.present
       /\ cache'.present /\ (~cache.present \/ cache'.val # cache.val)
            => \E r \in Req : Fills(r)]_vars

\* An Update that ran alone has written the record, has evicted the snapshot,
\* and is about to answer.
C15_Witness ==
    \E r \in Req :
        /\ req[r].op = "update" /\ req[r].pc = "respond" /\ req[r].solo
        /\ FindByPk(db, req[r].id) = req[r].task /\ req[r].task.completed
        /\ ~cache.present /\ ~filled.present

\* C16: a failure of the Cache during the eviction, after the SoT write went
\* through, is not compensated.  The handler ends there without a success
\* response and without another attempt, the SoT keeps the write, and the key
\* is left as it was.
C16_NoCompensation ==
    [][\A r \in Req :
        /\ req[r].op \in Mutations /\ req[r].pc = "evict"
        /\ Finishes(r) /\ last'.err = "cache"
        => /\ ~Success(last') /\ last'.status \in {500, 0}
           /\ UNCHANGED <<db, nextId, hist, cache, filled>>]_vars

\* A mutation that ran alone has failed on its eviction; no request is in
\* flight, the SoT holds the mutation's write, and the snapshot of before the
\* mutation is still present.
C16_Witness ==
    /\ Quiet
    /\ last.op \in Mutations /\ last.err = "cache" /\ last.solo /\ ~Success(last)
    /\ cache.present /\ Parse(cache.val) # db
    /\ db \in hist /\ Parse(cache.val) \in hist

\* C17: a ListAll hit has no side effects.  The step that answers from the
\* snapshot queries nothing, and leaves the SoT, the cached value and the
\* time the entry has left exactly as they were.
C17_HitNoSideEffects ==
    [][\A r \in Req :
        Hits(r)
        => /\ ~last'.queried /\ last'.err = "none"
           /\ cache' = cache /\ cache'.ttl = cache.ttl
           /\ UNCHANGED <<db, nextId, hist, filled>>]_vars

\* A hit has been answered from an entry that had used part of its time to
\* live, and the entry has as much time left as its age allows.
C17_Witness ==
    /\ Quiet
    /\ last.op = "list" /\ last.status = 200 /\ ~last.queried
    /\ cache.present /\ last.sent = cache.val
    /\ filled.present /\ filled.age > 0 /\ cache.ttl = TTL - filled.age

\* C18 as stated: in the executions in which requests do not overlap and no
\* call fails, the snapshot, whenever present, equals the collection the SoT
\* holds.
C18_SnapshotIsCurrent == cache.present => cache.val = Stringify(db)

\* C18 as amended: in the executions in which requests do not overlap and no
\* call fails, the snapshot, whenever present while no request is in flight,
\* equals the collection the SoT holds, and every ListAll answers 200 with
\* exactly the collection the SoT holds.
C18_SequentialConsistency ==
    [][/\ Quiet' /\ cache'.present => cache'.val = Stringify(db')
       /\ \A r \in Req :
            req[r].op = "list" /\ Finishes(r)
            => last'.status = 200 /\ last'.sent = Stringify(db)]_vars

\* After a Create and an Update, a ListAll has been answered from a snapshot
\* that holds the updated record, and no request is in flight.
C18_Witness ==
    /\ Quiet
    /\ last.op = "list" /\ last.status = 200 /\ ~last.queried
    /\ cache.present /\ last.sent = cache.val /\ cache.val = Stringify(db)
    /\ \E i \in 1..Len(db) : db[i].completed

\* C19: an Update that answers 200 had its record in the SoT at the instant
\* its write was applied; no Update answers success for a record that a
\* concurrent Delete had removed before the write.
C19_UpdatedRecordPresent ==
    [][\A r \in Req :
        req[r].op = "update" /\ Finishes(r) /\ last'.status = 200
        => ~req[r].gone]_vars

\* A Delete whose destroy removed the record.
Won(rq) == rq.op = "delete" /\ rq.pc \in {"evict", "respond"}

\* Slot r holds a Delete that runs while another Delete of the same identifier
\* is in flight, and the SoT holds the record or one of them has removed it.
Contended(r) ==
    /\ req[r].op = "delete"
    /\ \E q \in Req \ {r} : req[q].op = "delete" /\ req[q].id = req[r].id
    /\ \/ req[r].id \in RowIds(db)
       \/ \E q \in Req : Won(req[q]) /\ req[q].id = req[r].id

====
